---- MODULE Spec2Model ----
(***************************************************************************)
(* Model of the pool-lights sketch (src/DS3231.h): the BCD helpers and the *)
(* three bus functions of the DS3231 "library", loop(), which debounces    *)
(* the push button and steps the single-LED chase, and displayChase().     *)
(*                                                                         *)
(* Time.  loop() never uses millis() by itself, only the differences       *)
(* millis() - lastDebounceTime and millis() - chLastTime (unsigned long,   *)
(* so the differences are exact across the wrap of millis()).  The model   *)
(* keeps these differences ("ages") instead of the three absolute values:  *)
(* debounceAge = millis() - lastDebounceTime, chAge = millis() - chLastTime.*)
(* An assignment  x = millis()  sets the age to 0, and the time that passes*)
(* between two iterations of loop() is the input dt of the iteration.  An  *)
(* age saturates at AgeCap, which is above every threshold an age is       *)
(* compared with, so the comparisons are those of the code.  All millis()  *)
(* calls of one iteration return the same value.                           *)
(***************************************************************************)
EXTENDS Integers, Naturals, FiniteSets, Sequences

(* ---- program constants ---- *)
NUM_LEDS == 12
HIGH == 1
LOW == 0
debounceDelay == 1000
ChRoundLimit == 20
ChDelayStep == 20
ChDelayMax == 2000
ChDelayMin == 20
ByteMod == 256
DS3231_I2C_ADDRESS == 104
DS3231_TEMPERATURE_ADDR == 17
ChaseRepeats == 10
\* the DS3231 has the registers 00h..12h, the temperature in the last two
LastReg == DS3231_TEMPERATURE_ADDR + 1

(* ---- bounds of the model ---- *)
\* analogRead() returns 0..1023; the model draws readings from 0..MaxReading
MaxReading == 2
\* the short time step between two iterations of loop(), in ms
TickMs == 500
\* Spec explores the debounce logic during the first MaxSweeps sweeps of the chase
MaxSweeps == 2

AgeCap == ChDelayMax + 1
Readings == 0..MaxReading
Dts == {0, TickMs, AgeCap}
Sat(a) == IF a > AgeCap THEN AgeCap ELSE a

VARIABLES
  lastButtonState, buttonState, ledState, debounceAge,
  chLed, chStep, chRound, chDelay, chAge, ledOn,
  stableAge, toggleAge, toggleGap, held, stepped, stepGap, stepDelay,
  phase, val, bcd, dec,
  rtcPc, args, wire, regs, regPtr, outs, tmsb, tlsb, nint, frac, quarters, temp,
  dcPc, dcI, dcJ, dcFirst, dcSecond

buttonVars == <<lastButtonState, buttonState, ledState, debounceAge>>
chaseVars == <<chLed, chStep, chRound, chDelay, chAge, ledOn>>
historyVars == <<stableAge, toggleAge, toggleGap, held, stepped, stepGap, stepDelay>>
bcdVars == <<phase, val, bcd, dec>>
dispVars == <<dcPc, dcI, dcJ, dcFirst, dcSecond>>
rtcVars == <<rtcPc, args, wire, regs, regPtr, outs, tmsb, tlsb, nint, frac, quarters, temp>>
vars == <<lastButtonState, buttonState, ledState, debounceAge,
          chLed, chStep, chRound, chDelay, chAge, ledOn,
          stableAge, toggleAge, toggleGap, held, stepped, stepGap, stepDelay,
          phase, val, bcd, dec,
          rtcPc, args, wire, regs, regPtr, outs, tmsb, tlsb, nint, frac, quarters, temp,
          dcPc, dcI, dcJ, dcFirst, dcSecond>>

(* ======================= BCD helpers ======================= *)

\* a variant that scales the tens digit by 10 instead of 16
decToBcdDecimalShift(v) == ((v \div 10) * 10 + (v % 10)) % ByteMod

\* byte decToBcd(byte val): int arithmetic, truncated to a byte on return
decToBcd(v) == ((v \div 10) * 16 + (v % 10)) % ByteMod

\* a variant that leaves the high nibble scaled by 16
bcdToDecNoScale(v) == ((v \div 16) * 16 + (v % 16)) % ByteMod

\* byte bcdToDec(byte val)
bcdToDec(v) == ((v \div 16) * 10 + (v % 16)) % ByteMod

(* ======================= debounce ======================= *)

\* a variant that restarts the timer on rising readings only
ReadingRose(reading, last) == reading > last

\* line 218: if (reading != lastButtonState)
ReadingChanged(reading, last) == reading # last

\* a variant with the comparison inverted
DebounceNotElapsed(age) == age < debounceDelay

\* line 223: if ((millis() - lastDebounceTime) > debounceDelay)
DebounceElapsed(age) == age > debounceDelay

\* a variant without the edge detection: every stable reading is taken as new
StateChangedAlways(reading, state) == TRUE

\* line 228: if (reading != buttonState)
StateChanged(reading, state) == reading # state

\* a variant that toggles on every accepted state that is not LOW
ToggleOnNotLow(state) == state # LOW

\* line 232: if (buttonState == HIGH)
ToggleOn(state) == state = HIGH

\* line 233: !ledState
Not(x) == IF x = 0 THEN 1 ELSE 0

(* ======================= chase ======================= *)

\* line 252: chLed > NUM_LEDS-2 || chLed < 0
AtEnd(led) == led > NUM_LEDS - 2 \/ led < 0

\* line 255: chLed > NUM_LEDS-1 ? -1 : NUM_LEDS-1
WrapLed(led) == IF led > NUM_LEDS - 1 THEN -1 ELSE NUM_LEDS - 1

\* line 256: chRound > 20
RoundsDone(round) == round > ChRoundLimit

\* a variant that lets the delay run past the ceiling
NextChDelayNoCeiling(d) == IF d <= ChDelayMax THEN d + ChDelayStep ELSE ChDelayMin

\* a variant that holds the delay at the ceiling instead of resetting it
NextChDelayHold(d) == IF d < ChDelayMax THEN d + ChDelayStep ELSE d

\* line 259: chDelay < 2000 ? chDelay + 20 : 20
NextChDelay(d) == IF d < ChDelayMax THEN d + ChDelayStep ELSE ChDelayMin

\* a variant that clamps at the ends instead of wrapping
AdvanceClamped(led, step) ==
  IF led + step < NUM_LEDS /\ led + step >= 0
  THEN led + step
  ELSE led

\* a variant with the two wrap targets exchanged
AdvanceWrapSwapped(led, step) ==
  IF led + step < NUM_LEDS /\ led + step >= 0
  THEN led + step
  ELSE (IF step > 0 THEN NUM_LEDS - 1 ELSE 0)

\* a variant whose upper test admits the index NUM_LEDS
AdvanceOffByOne(led, step) ==
  IF led + step <= NUM_LEDS /\ led + step >= 0
  THEN led + step
  ELSE (IF step > 0 THEN 0 ELSE NUM_LEDS - 1)

\* lines 265-269
Advance(led, step) ==
  IF led + step < NUM_LEDS /\ led + step >= 0
  THEN led + step
  ELSE (IF step > 0 THEN 0 ELSE NUM_LEDS - 1)

\* lines 252-269: one animation step on the record s of the four chase variables
ChaseStep(s) ==
  LET end == AtEnd(s.chLed)
      round1 == IF end THEN s.chRound + 1 ELSE s.chRound
      led1 == IF end THEN WrapLed(s.chLed) ELSE s.chLed
      rev == end /\ RoundsDone(round1)
      step1 == IF rev THEN -s.chStep ELSE s.chStep
      delay1 == IF rev THEN NextChDelay(s.chDelay) ELSE s.chDelay
      round2 == IF rev THEN 0 ELSE round1
  IN [chLed |-> Advance(led1, step1), chStep |-> step1,
      chRound |-> round2, chDelay |-> delay1]

\* a variant that steps as soon as the interval is reached
ChaseDueInclusive(age, delay) == age >= delay

\* line 249: if ((millis() - chLastTime) > chDelay)
ChaseDue(age, delay) == age > delay

\* lines 387-404: setOnlyLed(n), the levels written to LED_PIN[0..NUM_LEDS-1]
SetOnlyLed(n) == [i \in 0..(NUM_LEDS - 1) |-> IF n = i THEN HIGH ELSE LOW]

(* ======================= loop() ======================= *)

\* One iteration of loop(): analogRead returns reading, dt ms after the
\* previous iteration.
loop(reading, dt) ==
  LET changed == ReadingChanged(reading, lastButtonState)
      dAge == IF changed THEN 0 ELSE Sat(debounceAge + dt)
      accept == DebounceElapsed(dAge) /\ StateChanged(reading, buttonState)
      toggle == accept /\ ToggleOn(reading)
      cAge == Sat(chAge + dt)
      due == ChaseDue(cAge, chDelay)
      s == ChaseStep([chLed |-> chLed, chStep |-> chStep,
                      chRound |-> chRound, chDelay |-> chDelay])
  IN /\ debounceAge' = dAge
     /\ buttonState' = IF accept THEN reading ELSE buttonState
     /\ ledState' = IF toggle THEN Not(ledState) ELSE ledState
     /\ chLed' = IF due THEN s.chLed ELSE chLed
     /\ chStep' = IF due THEN s.chStep ELSE chStep
     /\ chRound' = IF due THEN s.chRound ELSE chRound
     /\ chDelay' = IF due THEN s.chDelay ELSE chDelay
     /\ chAge' = IF due THEN 0 ELSE cAge
     /\ ledOn' = IF due THEN SetOnlyLed(s.chLed) ELSE ledOn
     /\ lastButtonState' = reading
     \* history: time since two consecutive samples last differed, time since
     \* the last toggle of ledState (-1: never), and the time between the last
     \* two toggles (-1: fewer than two)
     /\ stableAge' = IF reading # lastButtonState THEN 0 ELSE Sat(stableAge + dt)
     /\ toggleAge' = IF toggle THEN 0
                     ELSE IF toggleAge < 0 THEN toggleAge ELSE Sat(toggleAge + dt)
     /\ toggleGap' = IF toggle /\ toggleAge >= 0 THEN Sat(toggleAge + dt) ELSE toggleGap
     \* history: every reading since the last toggle was HIGH; this iteration
     \* made an animation step; millis() - chLastTime and chDelay as compared
     \* at line 249 of the last animation step (-1: no step yet)
     /\ held' = IF toggle THEN TRUE ELSE (held /\ reading = HIGH)
     /\ stepped' = due
     /\ stepGap' = IF due THEN cAge ELSE stepGap
     /\ stepDelay' = IF due THEN chDelay ELSE stepDelay
     /\ UNCHANGED <<bcdVars, rtcVars, dispVars>>

\* globals as initialised at lines 144-158; setup() delays for more than
\* 10 s before the first loop(), so both ages start saturated, and its last
\* writes (lines 197-199) leave every LED off
InitLoop ==
  /\ ledState = HIGH
  /\ buttonState = 0
  /\ lastButtonState = LOW
  /\ debounceAge = AgeCap
  /\ chStep = 1
  /\ chLed = 0
  /\ chDelay = 20
  /\ chRound = 0
  /\ chAge = AgeCap
  /\ ledOn = [i \in 0..(NUM_LEDS - 1) |-> LOW]
  /\ stableAge = AgeCap
  /\ toggleAge = -1
  /\ toggleGap = -1
  /\ held = FALSE
  /\ stepped = FALSE
  /\ stepGap = -1
  /\ stepDelay = -1

\* displayChase has not been called
InitDispIdle ==
  dcPc = "idle" /\ dcI = 0 /\ dcJ = 0 /\ dcFirst = -1 /\ dcSecond = -1

\* the RTC functions have not been called, the DS3231 registers hold zeros
InitRtcIdle ==
  /\ rtcPc = "idle"
  /\ args = <<0, 0, 0, 0, 0, 0, 0>>
  /\ wire = <<>>
  /\ regs = [r \in 0..LastReg |-> 0]
  /\ regPtr = 0
  /\ outs = <<0, 0, 0, 0, 0, 0, 0>>
  /\ tmsb = 0 /\ tlsb = 0 /\ nint = 0 /\ frac = 0 /\ quarters = 0 /\ temp = 0

Init ==
  /\ InitLoop
  /\ phase = "idle" /\ val = 0 /\ bcd = 0 /\ dec = 0
  /\ InitRtcIdle
  /\ InitDispIdle

\* loop() with any reading and any time step
LoopAny ==
  /\ chRound < MaxSweeps
  /\ \E reading \in Readings : \E dt \in Dts : loop(reading, dt)

Next == LoopAny

Spec == Init /\ [][Next]_vars

\* loop() with the button left alone (the input reads LOW)
LoopIdle == \E dt \in Dts : loop(LOW, dt)

NextChase == LoopIdle

SpecChase == Init /\ [][NextChase]_vars

\* an iteration of loop() before which millis() has advanced
LoopTick == \E dt \in Dts \ {0} : loop(LOW, dt)

\* main() calls loop() forever and millis() keeps counting: iterations
\* with time advanced keep happening
SpecLive == Init /\ [][NextChase]_vars /\ WF_vars(LoopTick)

(* ======================= BCD round trip ======================= *)

InitBcd ==
  /\ InitLoop
  /\ phase = "start" /\ val \in 0..(ByteMod - 1) /\ bcd = 0 /\ dec = 0
  /\ InitRtcIdle
  /\ InitDispIdle

\* lines 31-37: Wire.write(decToBcd(x))
Encode ==
  /\ phase = "start"
  /\ phase' = "encoded"
  /\ bcd' = decToBcd(val)
  /\ UNCHANGED <<val, dec, buttonVars, chaseVars, historyVars, rtcVars, dispVars>>

\* lines 48-54: x = bcdToDec(Wire.read()), of the byte written before
Decode ==
  /\ phase = "encoded"
  /\ phase' = "decoded"
  /\ dec' = bcdToDec(bcd)
  /\ UNCHANGED <<val, bcd, buttonVars, chaseVars, historyVars, rtcVars, dispVars>>

\* lines 48-54: x = bcdToDec(Wire.read()), of an arbitrary register byte
DecodeRaw ==
  /\ phase = "start"
  /\ phase' = "rawdecoded"
  /\ dec' = bcdToDec(val)
  /\ UNCHANGED <<val, bcd, buttonVars, chaseVars, historyVars, rtcVars, dispVars>>

NextBcd == Encode \/ Decode \/ DecodeRaw

SpecBcd == InitBcd /\ [][NextBcd]_vars

(* ======================= DS3231 over the Wire bus ======================= *)

\* bitwise and / or of two non-negative ints
RECURSIVE BitAnd(_, _)
BitAnd(a, b) ==
  IF a = 0 \/ b = 0 THEN 0
  ELSE 2 * BitAnd(a \div 2, b \div 2) + (IF a % 2 = 1 /\ b % 2 = 1 THEN 1 ELSE 0)

RECURSIVE BitOr(_, _)
BitOr(a, b) ==
  IF a = 0 THEN b ELSE IF b = 0 THEN a
  ELSE 2 * BitOr(a \div 2, b \div 2) + (IF a % 2 = 1 \/ b % 2 = 1 THEN 1 ELSE 0)

\* the calls made on Wire, in order
Ev(op, a, b) == [op |-> op, a |-> a, b |-> b]
WBegin == Ev("beginTransmission", DS3231_I2C_ADDRESS, 0)
WWrite(byte) == Ev("write", byte, 0)
WEnd == Ev("endTransmission", 0, 0)
WRequest(n) == Ev("requestFrom", DS3231_I2C_ADDRESS, n)
WRead == Ev("read", 0, 0)

\* a variant that sends the hour before the minute
SetTimeCallsHourFirst(a) ==
  <<WBegin, WWrite(0),
    WWrite(decToBcd(a[1])), WWrite(decToBcd(a[3])), WWrite(decToBcd(a[2])),
    WWrite(decToBcd(a[4])), WWrite(decToBcd(a[5])), WWrite(decToBcd(a[6])),
    WWrite(decToBcd(a[7])), WEnd>>

\* lines 29-38: the Wire calls of setDS3231time(second, minute, hour,
\* dayOfWeek, dayOfMonth, month, year), a the tuple of its arguments
SetTimeCalls(a) ==
  <<WBegin, WWrite(0),
    WWrite(decToBcd(a[1])), WWrite(decToBcd(a[2])), WWrite(decToBcd(a[3])),
    WWrite(decToBcd(a[4])), WWrite(decToBcd(a[5])), WWrite(decToBcd(a[6])),
    WWrite(decToBcd(a[7])), WEnd>>

\* lines 42-54: the Wire calls of readDS3231time
ReadTimeCalls ==
  <<WBegin, WWrite(0), WEnd, WRequest(7),
    WRead, WRead, WRead, WRead, WRead, WRead, WRead>>

\* lines 62-68: the Wire calls of readDS3231temperature
ReadTempCalls ==
  <<WBegin, WWrite(DS3231_TEMPERATURE_ADDR), WEnd, WRequest(2), WRead, WRead>>

\* the data bytes of a write transaction: its first byte is the register
\* pointer, the others go to the registers from there on
RECURSIVE StoreBytes(_, _, _)
StoreBytes(r, ptr, bytes) ==
  IF bytes = <<>> THEN r
  ELSE StoreBytes([r EXCEPT ![ptr] = Head(bytes)], (ptr + 1) % (LastReg + 1), Tail(bytes))

\* the n bytes a requestFrom delivers, read from the register pointer on
Fetch(r, ptr, n) == [k \in 1..n |-> r[(ptr + k - 1) % (LastReg + 1)]]

\* a variant that masks the hours with 0x1f
DecodeTimeNarrowHourMask(b) ==
  <<bcdToDec(BitAnd(b[1], 127)), bcdToDec(b[2]), bcdToDec(BitAnd(b[3], 31)),
    bcdToDec(b[4]), bcdToDec(b[5]), bcdToDec(b[6]), bcdToDec(b[7])>>

\* lines 48-54: the seven values readDS3231time stores, b the bytes read
DecodeTime(b) ==
  <<bcdToDec(BitAnd(b[1], 127)), bcdToDec(b[2]), bcdToDec(BitAnd(b[3], 63)),
    bcdToDec(b[4]), bcdToDec(b[5]), bcdToDec(b[6]), bcdToDec(b[7])>>

\* a variant that keeps the value as an unsigned byte
ToUint8(x) == x % ByteMod

\* conversion of an int to int8_t
ToInt8(x) == ((x + 128) % ByteMod) - 128

\* a 16-bit pattern read as an int (AVR int is 16 bits wide)
ToInt16(x) == ((x + 32768) % 65536) - 32768

\* lines 70-73: nint, from temp_msb; ~((1 << 8) - 1) is the pattern 0xFF00
Nint(msb) ==
  IF BitAnd(msb, 128) # 0
  THEN ToInt8(ToInt16(BitOr(msb, 65280)))
  ELSE ToInt8(msb)

\* line 68: temp_lsb = Wire.read() >> 6
Frac(lsb) == lsb \div 64

\* a variant that rounds to the nearest degree
RoundQuarters(q) == (q + 2) \div 4

\* line 75: the cast of a non-negative number of quarter degrees to byte
TruncQuarters(q) == (q \div 4) % ByteMod

\* line 75: (byte)(0.25 * temp_lsb + nint), q the sum in quarter degrees.
\* The conversion truncates toward zero; of a value of -1 or below it is
\* undefined and may give any byte.
TempBytes(q) ==
  IF q >= 0 THEN {TruncQuarters(q)}
  ELSE IF q > -4 THEN {0}
  ELSE 0..(ByteMod - 1)

\* argument tuples of setDS3231time: one argument any byte, the others at
\* the low or the high end of their calendar range
ArgsLow == <<0, 0, 0, 1, 1, 1, 0>>
ArgsHigh == <<59, 59, 23, 7, 31, 12, 99>>
TimeArgs ==
  {[base EXCEPT ![i] = v] : base \in {ArgsLow, ArgsHigh}, i \in 1..7, v \in 0..(ByteMod - 1)}

\* second bytes of the temperature
TempLsbs == {0, 63, 64, 128, 192, 255}

\* the RTC functions are about to be called
InitRtc ==
  /\ InitLoop
  /\ phase = "idle" /\ val = 0 /\ bcd = 0 /\ dec = 0
  /\ rtcPc = "ready"
  /\ args = <<0, 0, 0, 0, 0, 0, 0>>
  /\ wire = <<>>
  /\ regs = [r \in 0..LastReg |-> 0]
  /\ regPtr = 0
  /\ outs = <<0, 0, 0, 0, 0, 0, 0>>
  /\ tmsb = 0 /\ tlsb = 0 /\ nint = 0 /\ frac = 0 /\ quarters = 0 /\ temp = 0
  /\ InitDispIdle

\* lines 27-39: setDS3231time(a[1], ..., a[7])
setDS3231time ==
  /\ rtcPc = "ready"
  /\ \E a \in TimeArgs :
       LET calls == SetTimeCalls(a)
           data == [k \in 1..(Len(calls) - 2) |-> calls[k + 1].a]
       IN /\ args' = a
          /\ wire' = calls
          /\ regs' = StoreBytes(regs, Head(data), Tail(data))
          /\ regPtr' = (Head(data) + Len(data) - 1) % (LastReg + 1)
  /\ rtcPc' = "set"
  /\ UNCHANGED <<outs, tmsb, tlsb, nint, frac, quarters, temp,
                 buttonVars, chaseVars, historyVars, bcdVars, dispVars>>

\* lines 41-55: readDS3231time, after the time has been set
readDS3231time ==
  /\ rtcPc = "set"
  /\ LET ptr == ReadTimeCalls[2].a
         n == ReadTimeCalls[4].b
     IN /\ wire' = ReadTimeCalls
        /\ outs' = DecodeTime(Fetch(regs, ptr, n))
        /\ regPtr' = (ptr + n) % (LastReg + 1)
  /\ rtcPc' = "read"
  /\ UNCHANGED <<args, regs, tmsb, tlsb, nint, frac, quarters, temp,
                 buttonVars, chaseVars, historyVars, bcdVars, dispVars>>

\* lines 58-76: readDS3231temperature, the DS3231 holding the bytes msb and
\* lsb in its temperature registers
readDS3231temperature ==
  /\ rtcPc = "ready"
  /\ \E msb \in 0..(ByteMod - 1) : \E lsb \in TempLsbs :
       LET ptr == ReadTempCalls[2].a
           n == ReadTempCalls[4].b
           r == [regs EXCEPT ![DS3231_TEMPERATURE_ADDR] = msb,
                             ![DS3231_TEMPERATURE_ADDR + 1] = lsb]
           b == Fetch(r, ptr, n)
       IN /\ regs' = r
          /\ wire' = ReadTempCalls
          /\ regPtr' = (ptr + n) % (LastReg + 1)
          /\ tmsb' = b[1]
          /\ tlsb' = b[2]
          /\ nint' = Nint(b[1])
          /\ frac' = Frac(b[2])
          /\ quarters' = 4 * Nint(b[1]) + Frac(b[2])
          /\ temp' \in TempBytes(4 * Nint(b[1]) + Frac(b[2]))
  /\ rtcPc' = "temp"
  /\ UNCHANGED <<args, outs, buttonVars, chaseVars, historyVars, bcdVars, dispVars>>

NextRtc == setDS3231time \/ readDS3231time \/ readDS3231temperature

SpecRtc == InitRtc /\ [][NextRtc]_vars

(* ======================= displayChase() ======================= *)

Abs(x) == IF x < 0 THEN -x ELSE x

\* line 291: the index of the second dot, abs(NUM_LEDS-i)
MirrorIndex(i) == Abs(NUM_LEDS - i)

\* lines 377-382: setAllLed(on)
SetAllLed(on) == [k \in 0..(NUM_LEDS - 1) |-> on]

\* digitalWrite(LED_PIN[n], HIGH) on the levels leds.  LED_PIN has the
\* elements 0..NUM_LEDS-1: another n reads whatever follows the array, and
\* the pin written may be any LED pin or none of them.
WriteLedHigh(leds, n) ==
  IF n \in 0..(NUM_LEDS - 1)
  THEN {[leds EXCEPT ![n] = HIGH]}
  ELSE {leds} \cup {[leds EXCEPT ![k] = HIGH] : k \in 0..(NUM_LEDS - 1)}

\* displayChase is about to be called
InitDisplay ==
  /\ InitLoop
  /\ phase = "idle" /\ val = 0 /\ bcd = 0 /\ dec = 0
  /\ InitRtcIdle
  /\ dcPc = "call" /\ dcI = 0 /\ dcJ = 0 /\ dcFirst = -1 /\ dcSecond = -1

\* lines 284-288: setAllLed(LOW) and the entry into the two loops
DisplayChaseEnter ==
  /\ dcPc = "call"
  /\ ledOn' = SetAllLed(LOW)
  /\ dcJ' = 0 /\ dcI' = 0
  /\ dcPc' = "inner"
  /\ UNCHANGED <<dcFirst, dcSecond, chLed, chStep, chRound, chDelay, chAge,
                 buttonVars, historyVars, bcdVars, rtcVars>>

\* lines 288-292: one pass of the inner loop
DisplayChaseDot ==
  /\ dcPc = "inner"
  /\ dcI < NUM_LEDS
  /\ \E l1 \in WriteLedHigh(SetAllLed(LOW), dcI) :
       ledOn' \in WriteLedHigh(l1, MirrorIndex(dcI))
  /\ dcFirst' = dcI
  /\ dcSecond' = MirrorIndex(dcI)
  /\ dcI' = dcI + 1
  /\ UNCHANGED <<dcPc, dcJ, chLed, chStep, chRound, chDelay, chAge,
                 buttonVars, historyVars, bcdVars, rtcVars>>

\* lines 287-294: the end of the inner loop, delay(500), and the next pass
\* of the outer loop or the return
DisplayChaseDelay ==
  /\ dcPc = "inner"
  /\ dcI >= NUM_LEDS
  /\ dcJ' = dcJ + 1
  /\ dcI' = 0
  /\ dcPc' = IF dcJ + 1 < ChaseRepeats THEN "inner" ELSE "done"
  /\ UNCHANGED <<dcFirst, dcSecond, chaseVars, buttonVars, historyVars, bcdVars, rtcVars>>

NextDisplay == DisplayChaseEnter \/ DisplayChaseDot \/ DisplayChaseDelay

SpecDisplay == InitDisplay /\ [][NextDisplay]_vars

(* ======================= properties ======================= *)

\* C1: after any number of animation steps the animation index chLed is
\* within [0, NUM_LEDS-1].
C1_IndexInRange == chLed \in 0..(NUM_LEDS - 1)

\* the chase has wrapped from 0 to the last LED while running backwards
C1_Witness == chLed = NUM_LEDS - 1 /\ chStep = -1 /\ chRound = 0 /\ chAge = 0

\* C2 (as claimed): the direction inverts in the step of the 20th boundary
\* crossing since the start or the previous reversal (chRound counts the
\* crossings before the step), and that step changes the delay.
C2_ReversalAtTwentiethCrossing ==
  [][ /\ (chStep' # chStep => chRound + 1 = ChRoundLimit)
      /\ (chRound = ChRoundLimit - 1 /\ chRound' # chRound
            => chStep' = -chStep /\ chDelay' = chDelay + ChDelayStep) ]_vars

\* C3: chDelay is always a multiple of 20 within [20, 2000]; a reversal adds
\* 20 ms when the result does not exceed 2000 ms and resets the delay to 20 ms
\* otherwise.
C3_DelayWithinBounds ==
  /\ [](chDelay % ChDelayStep = 0 /\ chDelay >= ChDelayMin /\ chDelay <= ChDelayMax)
  /\ [][chStep' # chStep =>
          chDelay' = IF chDelay + ChDelayStep <= ChDelayMax
                     THEN chDelay + ChDelayStep ELSE ChDelayMin]_vars

\* the reversal at the ceiling has just reset the delay to the floor
C3_Witness ==
  chDelay = ChDelayMin /\ chStep = 1 /\ chLed = 0 /\ chRound = 0 /\ chAge = 0

\* C4: chStep changes sign in a step if and only if chDelay changes in that
\* step, and such a step resets chRound to 0.
C4_ReversalCoupledWithDelay ==
  [][ /\ (chStep' # chStep <=> chDelay' # chDelay)
      /\ (chStep' # chStep => chStep' = -chStep /\ chRound' = 0) ]_vars

\* the first reversal has just happened
C4_Witness ==
  chStep = -1 /\ chDelay = ChDelayMin + ChDelayStep /\ chRound = 0 /\ chAge = 0

\* C5: two toggles of ledState are never less than debounceDelay apart.
C5_TogglesDebounced == toggleGap = -1 \/ toggleGap >= debounceDelay

\* ledState has been toggled twice
C5_Witness == toggleGap >= 0 /\ toggleAge = 0

\* C6: buttonState changes only to the current reading and only when the
\* reading has been the same at every sample for longer than debounceDelay,
\* which is what millis() - lastDebounceTime measures; ledState changes only
\* together with buttonState.
C6_ChangeOnlyWhenStable ==
  [][ /\ (buttonState' # buttonState =>
            /\ buttonState' = lastButtonState'
            /\ stableAge' > debounceDelay
            /\ debounceAge' = stableAge')
      /\ (ledState' # ledState => buttonState' # buttonState) ]_vars

\* a second value has been accepted after the first accepted change
C6_Witness ==
  buttonState = LOW /\ toggleAge > 0 /\ lastButtonState = LOW /\ stableAge > debounceDelay

\* C7: ledState is toggled exactly when buttonState goes from a value other
\* than HIGH to HIGH, which happens whenever the reading has been HIGH for
\* longer than debounceDelay; ledState is always 0 or 1.
C7_ToggleOnStableHigh ==
  /\ [](ledState \in {0, 1})
  /\ [][ /\ (ledState' # ledState <=> (buttonState # HIGH /\ buttonState' = HIGH))
         /\ (lastButtonState' = HIGH /\ stableAge' > debounceDelay /\ buttonState # HIGH
               => ledState' = Not(ledState)) ]_vars

\* the first accepted press has switched ledState from HIGH to LOW
C7_Witness == ledState = LOW /\ buttonState = HIGH /\ toggleAge = 0 /\ toggleGap = -1

\* C8 (as claimed): buttonState is always one of the two values LOW and HIGH.
C8_ButtonStateTwoValued == buttonState \in {LOW, HIGH}

\* C9: for every d in [0, 99], bcdToDec(decToBcd(d)) = d.
C9_RoundTrip == (phase = "decoded" /\ val <= 99) => dec = val

\* the largest valid value has made the round trip
C9_Witness == phase = "decoded" /\ val = 99 /\ bcd = 153 /\ dec = 99

\* C10: for d in [0, 99] decToBcd(d) has the tens digit in the high nibble and
\* the units digit in the low nibble; bcdToDec of a byte with decimal-digit
\* nibbles h and l is 10*h + l; decToBcd(34) = 0x34 and bcdToDec(0x52) = 52.
C10_NibblesAreDigits ==
  /\ (phase = "encoded" /\ val <= 99) =>
        /\ bcd \div 16 = val \div 10 /\ bcd % 16 = val % 10
        /\ bcd \div 16 <= 9 /\ bcd % 16 <= 9
  /\ (phase = "rawdecoded" /\ val \div 16 <= 9 /\ val % 16 <= 9) =>
        dec = 10 * (val \div 16) + (val % 16)
  /\ (phase = "encoded" /\ val = 34) => bcd = 52
  /\ (phase = "rawdecoded" /\ val = 82) => dec = 52

\* the register byte 0x52 has been decoded
C10_Witness == phase = "rawdecoded" /\ val = 82 /\ dec = 52

\* C13: the animation state changes only in an iteration where
\* millis() - chLastTime > chDelay; that iteration performs exactly one step
\* and sets chLastTime to the current time, so a step comes more than the
\* chDelay in force before it after the previous one.
C13_StepOnlyWhenDue ==
  /\ [](stepGap = -1 \/ stepGap > stepDelay)
  /\ [][ (<<chLed, chStep, chRound, chDelay>>' # <<chLed, chStep, chRound, chDelay>>
            \/ stepped')
         => /\ stepped'
            /\ chAge' = 0
            /\ stepDelay' = chDelay
            /\ stepGap' > chDelay
            /\ [chLed |-> chLed', chStep |-> chStep', chRound |-> chRound',
                chDelay |-> chDelay']
                 = ChaseStep([chLed |-> chLed, chStep |-> chStep,
                              chRound |-> chRound, chDelay |-> chDelay]) ]_vars

\* a step taken at the third tick, the interval being two ticks long
C13_Witness == stepped /\ stepDelay = 2 * TickMs /\ stepGap = 3 * TickMs

\* C14: every animation step moves chLed to (old chLed + new chStep) mod 12,
\* never staying and never skipping, and leaves exactly the LED chLed on.
C14_MovesToAdjacentLed ==
  /\ [](stepGap # -1 =>
          {i \in 0..(NUM_LEDS - 1) : ledOn[i] = HIGH} = {chLed})
  /\ [][ stepped' =>
           /\ chLed' = (chLed + chStep') % NUM_LEDS
           /\ chLed' # chLed
           /\ ledOn' = [i \in 0..(NUM_LEDS - 1) |-> IF i = chLed' THEN HIGH ELSE LOW]
       ]_vars

\* the step that reverses from backwards to forwards has moved from 11 to 0
C14_Witness ==
  stepped /\ chStep = 1 /\ chLed = 0 /\ chRound = 0 /\ stepDelay = 2 * ChDelayStep
    /\ ledOn[0] = HIGH

\* C18: after a toggle, as long as every reading is HIGH, ledState is not
\* toggled again; a toggle happens only from an accepted state other than HIGH.
C18_HeldButtonTogglesOnce ==
  /\ [](held => buttonState = HIGH)
  /\ [][ /\ (held /\ lastButtonState' = HIGH => ledState' = ledState)
         /\ (ledState' # ledState => buttonState # HIGH /\ ~held) ]_vars

\* the button has been held for more than two seconds after its toggle
C18_Witness == held /\ toggleAge = AgeCap /\ lastButtonState = HIGH /\ ledState = LOW

\* C19: with loop() called forever and millis() advancing, animation steps
\* keep occurring, each of the 12 LEDs is lit again and again, and chStep
\* keeps reversing.
C19_AnimationNeverStalls ==
  /\ []<>stepped
  /\ \A i \in 0..(NUM_LEDS - 1) : []<>(chLed = i /\ ledOn[i] = HIGH)
  /\ []<>(chStep = 1)
  /\ []<>(chStep = -1)

\* the chase runs backwards at the slowest interval, waiting for its next step
C19_Witness == chStep = -1 /\ chDelay = ChDelayMax /\ ~stepped /\ chAge = ChDelayMax

\* C11: setDS3231time sends, inside one begin/end transmission to 0x68, the
\* register pointer 0 and then the 7 BCD bytes of second, minute, hour,
\* day of week, day of month, month, year; readDS3231time and
\* readDS3231temperature first complete a write transaction that carries
\* only the register pointer (0, resp. 0x11) and then request and read
\* exactly 7, resp. 2 bytes in register order.
C11_BusSequence ==
  LET PointerOnly(ptr) ==
        /\ wire[1] = Ev("beginTransmission", 104, 0)
        /\ wire[2] = Ev("write", ptr, 0)
        /\ wire[3].op = "endTransmission"
      ThenReads(n) ==
        /\ Len(wire) = 4 + n
        /\ wire[4] = Ev("requestFrom", 104, n)
        /\ \A k \in 5..(4 + n) : wire[k].op = "read"
  IN /\ rtcPc = "set" =>
          /\ Len(wire) = 10
          /\ wire[1] = Ev("beginTransmission", 104, 0)
          /\ wire[2] = Ev("write", 0, 0)
          /\ \A k \in 1..7 : wire[k + 2] = Ev("write", decToBcd(args[k]), 0)
          /\ wire[10].op = "endTransmission"
          /\ \A k \in 1..7 : regs[k - 1] = decToBcd(args[k])
     /\ rtcPc = "read" =>
          /\ PointerOnly(0)
          /\ ThenReads(7)
          /\ regPtr = 7
     /\ rtcPc = "temp" =>
          /\ PointerOnly(17)
          /\ ThenReads(2)
          /\ tmsb = regs[17] /\ tlsb = regs[18]

\* setDS3231time has sent seven different bytes
C11_Witness ==
  /\ rtcPc = "set"
  /\ args = <<59, 59, 23, 7, 31, 12, 99>>
  /\ [k \in 1..10 |-> wire[k].a] = <<104, 0, 89, 89, 35, 7, 49, 18, 153, 0>>

\* C12: nint is the first byte read as a two's-complement 8-bit integer, the
\* fraction is the top two bits of the second byte, and the computed
\* temperature is 4*nint + fraction quarter degrees.
C12_TemperatureDecode ==
  rtcPc = "temp" =>
    /\ nint = (IF tmsb < 128 THEN tmsb ELSE tmsb - 256)
    /\ frac \in 0..3
    /\ 64 * frac <= tlsb /\ tlsb < 64 * (frac + 1)
    /\ quarters = 4 * nint + frac

\* -0.25 degrees: first byte 0xFF, top bits of the second byte 11
C12_Witness == rtcPc = "temp" /\ tmsb = 255 /\ tlsb = 192 /\ nint = -1 /\ quarters = -1

\* C16: after setDS3231time with arguments in their calendar ranges,
\* readDS3231time returns the same seven values.
C16_SetReadRoundTrip ==
  (/\ rtcPc = "read"
   /\ args[1] \in 0..59 /\ args[2] \in 0..59 /\ args[3] \in 0..23
   /\ args[4] \in 1..7 /\ args[5] \in 1..31 /\ args[6] \in 1..12
   /\ args[7] \in 0..99)
    => outs = args

\* the latest valid time has been written and read back
C16_Witness ==
  rtcPc = "read" /\ args = <<59, 59, 23, 7, 31, 12, 99>> /\ outs = <<59, 59, 23, 7, 31, 12, 99>>

\* C17: for a first byte in 0..127 and any second byte, the byte stored in
\* *temp equals the first byte.
C17_FractionTruncated == (rtcPc = "temp" /\ tmsb <= 127) => temp = tmsb

\* 127.75 degrees is delivered as 127
C17_Witness == rtcPc = "temp" /\ tmsb = 127 /\ tlsb = 255 /\ frac = 3 /\ temp = 127

\* C15 (as claimed): in displayChase the second dot of pass i is written at
\* index 11 - i, and every index into LED_PIN is within [0, 11].
C15_MirrorIndexInRange ==
  dcFirst # -1 =>
    /\ dcSecond = NUM_LEDS - 1 - dcFirst
    /\ dcFirst \in 0..(NUM_LEDS - 1)
    /\ dcSecond \in 0..(NUM_LEDS - 1)

====
